---- MODULE Spec2Model ----
(***************************************************************************)
(* iamy: the mapping between IAM account data and a tree of YAML files.    *)
(*                                                                         *)
(* Strings are sequences of one-character strings, so that the path        *)
(* template and the two regular expressions are computed character by      *)
(* character.  The file system is a function from relative file paths      *)
(* (relative to YamlLoadDumper.Dir) to file contents.                      *)
(***************************************************************************)
EXTENDS Integers, Sequences, FiniteSets, TLC

VARIABLES
    fs0,        \* the tree under Dir before any operation ran
    fs,         \* the tree under Dir: relative path -> file content
    pc,         \* position of the running operation
    data,       \* Dump: the accountData argument
    canDelete,  \* Dump: the canDelete argument
    di,         \* Dump: index of the next resource in the write order
    written,    \* Dump: resources written so far, in order
    dumpErr,    \* Dump: the returned error
    allFiles,   \* Load: the enumerated relative paths
    li,         \* Load: index of the next path in allFiles
    accounts,   \* Load: the map account string -> AccountData
    readLog,    \* Load: paths handed to unmarshalYamlFile, in order
    loadErr,    \* Load: the returned error
    loadOut,    \* Load: the returned account list
    cIn,        \* codec: the account and resource under conversion
    cOp,        \* codec: the conversion applied last
    cOut        \* codec: its result

ioVars == <<fs0, fs, pc, data, canDelete, di, written, dumpErr,
            allFiles, li, accounts, readLog, loadErr, loadOut>>
codecVars == <<cIn, cOp, cOut>>
vars == <<fs0, fs, pc, data, canDelete, di, written, dumpErr,
          allFiles, li, accounts, readLog, loadErr, loadOut, cIn, cOp, cOut>>

Nil == "nil"

---------------------------------------------------------------------------
(* Characters and strings *)

Digits == {"0", "1", "2", "3", "4", "5", "6", "7", "8", "9"}

Letters ==
    {"a", "b", "c", "d", "e", "f", "g", "h", "i", "j", "k", "l", "m",
     "n", "o", "p", "q", "r", "s", "t", "u", "v", "w", "x", "y", "z",
     "A", "B", "C", "D", "E", "F", "G", "H", "I", "J", "K", "L", "M",
     "N", "O", "P", "Q", "R", "S", "T", "U", "V", "W", "X", "Y", "Z"}

\* \w of the regexp package
WordChars == Digits \cup Letters \cup {"_"}

AllIn(s, S) == \A i \in 1..Len(s) : s[i] \in S

HasAt(s, i, t) ==
    /\ i >= 1
    /\ i + Len(t) - 1 <= Len(s)
    /\ SubSeq(s, i, i + Len(t) - 1) = t

HasPrefix(s, t) == HasAt(s, 1, t)

MaxOf(S) == CHOOSE x \in S : \A y \in S : y <= x

Slash == <<"/">>
Hyphen == <<"-">>
YamlExt == <<".", "y", "a", "m", "l">>

---------------------------------------------------------------------------
(* Account identity *)

\* Account.String
String(a) ==
    IF a.Alias # <<>> THEN a.Alias \o Hyphen \o a.Id ELSE a.Id

\* accountReg = ^(([\w-]+)-)?(\d+)$ : the lengths the alias group can take
AliasEnds(s) ==
    {i \in 1..(Len(s) - 2) :
        /\ AllIn(SubSeq(s, 1, i), WordChars \cup {"-"})
        /\ s[i + 1] = "-"
        /\ AllIn(SubSeq(s, i + 2, Len(s)), Digits)}

\* a variant whose alias class is \w only
NewAccountFromStringNoHyphen(s) ==
    LET ends ==
            {i \in 1..(Len(s) - 2) :
                /\ AllIn(SubSeq(s, 1, i), WordChars)
                /\ s[i + 1] = "-"
                /\ AllIn(SubSeq(s, i + 2, Len(s)), Digits)}
    IN  IF ends # {}
        THEN [panic |-> FALSE,
              Id |-> SubSeq(s, MaxOf(ends) + 2, Len(s)),
              Alias |-> SubSeq(s, 1, MaxOf(ends))]
        ELSE IF Len(s) >= 1 /\ AllIn(s, Digits)
        THEN [panic |-> FALSE, Id |-> s, Alias |-> <<>>]
        ELSE [panic |-> TRUE, Id |-> <<>>, Alias |-> <<>>]

\* NewAccountFromString: the optional group is tried first and greedily; a
\* match always has four submatches (an unmatched group is the empty string),
\* so the three-submatch branch is never taken.  No match panics.
NewAccountFromString(s) ==
    IF AliasEnds(s) # {}
    THEN [panic |-> FALSE,
          Id |-> SubSeq(s, MaxOf(AliasEnds(s)) + 2, Len(s)),
          Alias |-> SubSeq(s, 1, MaxOf(AliasEnds(s)))]
    ELSE IF Len(s) >= 1 /\ AllIn(s, Digits)
    THEN [panic |-> FALSE, Id |-> s, Alias |-> <<>>]
    ELSE [panic |-> TRUE, Id |-> <<>>, Alias |-> <<>>]

---------------------------------------------------------------------------
(* Resources *)

Kinds == {"User", "Group", "Role", "Policy"}

\* User.Type, Group.Type, Role.Type, Policy.Type
Type(r) ==
    CASE r.kind = "User" -> <<"u", "s", "e", "r">>
      [] r.kind = "Group" -> <<"g", "r", "o", "u", "p">>
      [] r.kind = "Role" -> <<"r", "o", "l", "e">>
      [] r.kind = "Policy" -> <<"p", "o", "l", "i", "c", "y">>

NameString(r) == r.Name

PathString(r) == r.Path

---------------------------------------------------------------------------
(* Path codec *)

\* pathTemplate: {{.Account}}/{{.Resource.Type}}{{.Resource.Path}}{{.Resource.Name}}.yaml
renderPath(a, r) ==
    String(a) \o Slash \o Type(r) \o r.Path \o r.Name \o YamlExt

\* the alternation (user|group|policy|role), in its order
EntityTokens ==
    << <<"u", "s", "e", "r">>,
       <<"g", "r", "o", "u", "p">>,
       <<"p", "o", "l", "i", "c", "y">>,
       <<"r", "o", "l", "e">> >>

\* the first alternative that matches at position i (0: none)
EntityAt(s, i) ==
    LET hits == {k \in 1..Len(EntityTokens) : HasAt(s, i, EntityTokens[k])}
    IN  IF hits = {} THEN 0 ELSE CHOOSE k \in hits : \A j \in hits : k <= j

\* (?P<path>.*/)(?P<name>.+)\.yaml$ from position p: the places the path
\* group can end, each leaving a non-empty name before the extension
PathEnds(s, p) ==
    {k \in p..Len(s) :
        /\ s[k] = "/"
        /\ Len(s) - k >= Len(YamlExt) + 1
        /\ HasAt(s, Len(s) - Len(YamlExt) + 1, YamlExt)}

\* ^(?P<account>.+)/(?P<entity>...) : the lengths the account group can take
AccountEnds(s) ==
    {i \in 1..Len(s) :
        /\ HasAt(s, i + 1, Slash)
        /\ EntityAt(s, i + 2) # 0
        /\ PathEnds(s, i + 2 + Len(EntityTokens[EntityAt(s, i + 2)])) # {}}

NoMatch == [matched |-> FALSE, account |-> <<>>, entity |-> <<>>,
            path |-> <<>>, name |-> <<>>]

\* namedMatch with pathRegex: leftmost-first matching, every group greedy, so
\* the account group takes the longest prefix that lets the rest match, then
\* the path group the longest; "." matches no newline
namedMatch(s) ==
    LET ends == IF "\n" \in {s[j] : j \in 1..Len(s)} THEN {}
                ELSE AccountEnds(s)
    IN  IF ends = {}
    THEN NoMatch
    ELSE LET i == MaxOf(ends)
             e == EntityTokens[EntityAt(s, i + 2)]
             p == i + 2 + Len(e)
             k == MaxOf(PathEnds(s, p))
         IN  [matched |-> TRUE,
              account |-> SubSeq(s, 1, i),
              entity |-> e,
              path |-> SubSeq(s, p, k),
              name |-> SubSeq(s, k + 1, Len(s) - Len(YamlExt))]

---------------------------------------------------------------------------
(* The codec applied to bounded inputs *)

MaxSegs == 2

Str1 == <<"1">>
StrP == <<"p">>
StrB == <<"b">>

CodecIds == {Str1, <<"1", "2">>}
CodecAliases == {<<>>, StrP, <<"t", "-", "1">>, <<"a", "_", "b">>}
CodecAccounts == [Id : CodecIds, Alias : CodecAliases]

CodecSegments ==
    {<<"a">>, <<"u", "s", "e", "r">>, <<"r", "o", "l", "e", "s">>}

\* "/" followed by every segment, each closed by "/"
RECURSIVE PathOf(_)
PathOf(segs) ==
    IF segs = <<>> THEN Slash
    ELSE PathOf(SubSeq(segs, 1, Len(segs) - 1)) \o segs[Len(segs)] \o Slash

CodecPaths ==
    {PathOf(q) : q \in UNION {[1..n -> CodecSegments] : n \in 0..MaxSegs}}

CodecNames == {StrB, <<"u", "s", "e", "r">>, <<"a", ".", "y", "a", "m", "l">>}

CodecResources == [kind : Kinds, Name : CodecNames, Path : CodecPaths]

CodecIdle == [a |-> [Id |-> Str1, Alias |-> <<>>],
              r |-> [kind |-> "User", Name |-> StrB, Path |-> Slash]]

\* renderPath followed by namedMatch
RenderAndMatch ==
    /\ cOp = "input"
    /\ cOp' = "path"
    /\ cOut' = namedMatch(renderPath(cIn.a, cIn.r))
    /\ UNCHANGED <<cIn, ioVars>>

\* Account.String followed by NewAccountFromString
FormatAndParse ==
    /\ cOp = "input"
    /\ cOp' = "account"
    /\ cOut' = NewAccountFromString(String(cIn.a))
    /\ UNCHANGED <<cIn, ioVars>>

---------------------------------------------------------------------------
(* File paths *)

\* the elements of a path: the text between separators, empty elements dropped
RECURSIVE SplitFrom(_, _, _)
SplitFrom(s, i, cur) ==
    IF i > Len(s)
    THEN IF cur = <<>> THEN <<>> ELSE <<cur>>
    ELSE IF s[i] = "/"
    THEN IF cur = <<>>
         THEN SplitFrom(s, i + 1, <<>>)
         ELSE <<cur>> \o SplitFrom(s, i + 1, <<>>)
    ELSE SplitFrom(s, i + 1, Append(cur, s[i]))

\* filepath.Clean on the elements: "." is dropped, ".." removes the element
\* before it
RECURSIVE CleanElems(_, _)
CleanElems(elems, out) ==
    IF elems = <<>> THEN out
    ELSE IF Head(elems) = <<".">> THEN CleanElems(Tail(elems), out)
    ELSE IF Head(elems) = <<".", ".">> /\ out # <<>>
                /\ out[Len(out)] # <<".", ".">>
    THEN CleanElems(Tail(elems), SubSeq(out, 1, Len(out) - 1))
    ELSE CleanElems(Tail(elems), Append(out, Head(elems)))

RECURSIVE JoinElems(_)
JoinElems(elems) ==
    IF elems = <<>> THEN <<>>
    ELSE IF Len(elems) = 1 THEN elems[1]
    ELSE elems[1] \o Slash \o JoinElems(Tail(elems))

\* filepath.Join(f.Dir, path), as a path relative to f.Dir
Join(path) == JoinElems(CleanElems(SplitFrom(path, 1, <<>>), <<>>))

\* path lies in the subtree of directory dir
Under(path, dir) == HasPrefix(path, dir \o Slash)

\* a variant that removes nothing
RemoveAllNothing(tree, dir) == tree

\* os.RemoveAll(destDir)
RemoveAll(tree, dir) ==
    [q \in {x \in DOMAIN tree : ~Under(x, dir) /\ x # dir} |-> tree[q]]

\* os.MkdirAll then ioutil.WriteFile cannot succeed: an ancestor of the path
\* is a regular file, or the path is a directory
Blocked(tree, path) ==
    \/ \E q \in DOMAIN tree : Under(path, q)
    \/ \E q \in DOMAIN tree : Under(q, path)

\* byte order of the characters in use, the separator first: filepath.Walk
\* visits the entries of each directory in lexical order
CharOrder ==
    <<"/", "-", ".", "0", "1", "2", "3", "4", "5", "6", "7", "8", "9",
      "A", "B", "C", "D", "E", "F", "G", "H", "I", "J", "K", "L", "M",
      "N", "O", "P", "Q", "R", "S", "T", "U", "V", "W", "X", "Y", "Z", "_",
      "a", "b", "c", "d", "e", "f", "g", "h", "i", "j", "k", "l", "m",
      "n", "o", "p", "q", "r", "s", "t", "u", "v", "w", "x", "y", "z">>

Rank(c) == CHOOSE i \in 1..Len(CharOrder) : CharOrder[i] = c

WalkBefore(s, t) ==
    \E i \in 1..Len(t) :
        /\ \A j \in 1..(i - 1) : j <= Len(s) /\ s[j] = t[j]
        /\ \/ i > Len(s)
           \/ i <= Len(s) /\ Rank(s[i]) < Rank(t[i])

\* getFilesRecursively: the regular files under Dir in walk order
RECURSIVE getFilesRecursively(_)
getFilesRecursively(paths) ==
    IF paths = {} THEN <<>>
    ELSE LET m == CHOOSE x \in paths :
                      \A y \in paths \ {x} : WalkBefore(x, y)
         IN  <<m>> \o getFilesRecursively(paths \ {m})

---------------------------------------------------------------------------
(* File contents *)

NoDoc == "{}"

\* the key of the kind's policy document field (yaml tags of Role, Policy)
DocKey(kind) ==
    CASE kind = "Role" -> "AssumeRolePolicyDocument"
      [] kind = "Policy" -> "Policy"
      [] OTHER -> Nil

HasPoliciesField(kind) == kind # "Policy"

\* yaml.Marshal of a resource: Name and Path are not written (yaml:"-"), an
\* empty Policies list is omitted (omitempty), the document field is always
\* written
Marshal(r) ==
    [valid |-> TRUE,
     hasPolicies |-> HasPoliciesField(r.kind) /\ r.Policies # <<>>,
     Policies |-> IF HasPoliciesField(r.kind) THEN r.Policies ELSE <<>>,
     docKey |-> DocKey(r.kind),
     Doc |-> IF DocKey(r.kind) # Nil THEN r.Doc ELSE NoDoc]

\* a file that is no YAML mapping
Garbage ==
    [valid |-> FALSE, hasPolicies |-> FALSE, Policies |-> <<>>,
     docKey |-> Nil, Doc |-> NoDoc]

\* yaml.Unmarshal into the struct of the kind, then Name and Path from the
\* file path (Load, the four cases of the switch)
Unmarshal(kind, c, name, path) ==
    [kind |-> kind,
     Name |-> name,
     Path |-> path,
     Policies |-> IF HasPoliciesField(kind) /\ c.hasPolicies
                  THEN c.Policies ELSE <<>>,
     Doc |-> IF DocKey(kind) # Nil /\ c.docKey = DocKey(kind)
             THEN c.Doc ELSE NoDoc]

\* the kind the entity of a path selects
KindOf(entity) ==
    CASE entity = <<"u", "s", "e", "r">> -> "User"
      [] entity = <<"g", "r", "o", "u", "p">> -> "Group"
      [] entity = <<"r", "o", "l", "e">> -> "Role"
      [] entity = <<"p", "o", "l", "i", "c", "y">> -> "Policy"

---------------------------------------------------------------------------
(* Account data *)

\* NewAccountData, given the parsed account
NewAccountData(acct) ==
    [Account |-> acct, Users |-> <<>>, Groups |-> <<>>, Roles |-> <<>>,
     Policies |-> <<>>]

\* addUser, addGroup, addRole, addPolicy
AddResource(ad, r) ==
    CASE r.kind = "User" -> [ad EXCEPT !.Users = Append(@, r)]
      [] r.kind = "Group" -> [ad EXCEPT !.Groups = Append(@, r)]
      [] r.kind = "Role" -> [ad EXCEPT !.Roles = Append(@, r)]
      [] r.kind = "Policy" -> [ad EXCEPT !.Policies = Append(@, r)]

\* a variant that writes groups before policies
DumpOrderGroupsFirst(ad) ==
    ad.Users \o ad.Groups \o ad.Policies \o ad.Roles

\* Dump: the order of its four loops
DumpOrder(ad) ==
    ad.Users \o ad.Policies \o ad.Groups \o ad.Roles

---------------------------------------------------------------------------
(* Bounded inputs of Dump and Load *)

MaxRes == 2
MaxStray == 2

StrUsers == <<"u", "s", "e", "r", "s">>

DumpAccounts ==
    {[Id |-> Str1, Alias |-> <<>>], [Id |-> Str1, Alias |-> StrP]}

IoPaths == {Slash, Slash \o StrUsers \o Slash}

ReadOnly == <<"ReadOnly">>
Doc1 == "{Version: 2012-10-17}"

Pool(kind) ==
    CASE kind = "User" ->
            {[kind |-> "User", Name |-> StrB, Path |-> p,
              Policies |-> ReadOnly, Doc |-> NoDoc] : p \in IoPaths}
      [] kind = "Group" ->
            {[kind |-> "Group", Name |-> StrB, Path |-> Slash,
              Policies |-> <<>>, Doc |-> NoDoc]}
      [] kind = "Role" ->
            {[kind |-> "Role", Name |-> StrB, Path |-> Slash,
              Policies |-> <<>>, Doc |-> Doc1]}
      [] kind = "Policy" ->
            {[kind |-> "Policy", Name |-> StrB, Path |-> Slash,
              Policies |-> <<>>, Doc |-> Doc1]}

Shapes ==
    {s \in [Kinds -> 0..MaxRes] :
        s["User"] + s["Group"] + s["Role"] + s["Policy"] <= MaxRes}

AccountDatas ==
    UNION {{[Account |-> a, Users |-> u, Groups |-> g, Roles |-> r,
             Policies |-> p] :
                a \in DumpAccounts,
                u \in [1..s["User"] -> Pool("User")],
                g \in [1..s["Group"] -> Pool("Group")],
                r \in [1..s["Role"] -> Pool("Role")],
                p \in [1..s["Policy"] -> Pool("Policy")]} : s \in Shapes}

NoData == NewAccountData([Id |-> <<>>, Alias |-> <<>>])

UserFile == Marshal([kind |-> "User", Name |-> StrB, Path |-> Slash,
                     Policies |-> ReadOnly, Doc |-> NoDoc])

\* files a tree can hold before the program runs
StrayContent ==
    (<<"r", "e", "a", "d", "m", "e", ".", "t", "x", "t">> :> Garbage)
    @@ (<<"n", "o", "t", "e", "s", "/", "u", "s", "e", "r", "/",
          "b", "o", "b", ".", "y", "a", "m", "l">> :> UserFile)
    @@ (<<"1", "/", "u", "s", "e", "r", "s", "/",
          "b", ".", "y", "a", "m", "l">> :> UserFile)
    @@ (<<"p", "-", "1", "/", "u", "s", "e", "r", "/",
          "b", ".", "y", "a", "m", "l">> :> UserFile)
    @@ (<<"1", "/", "p", "o", "l", "i", "c", "y", "/",
          "c", ".", "y", "a", "m", "l">> :> Garbage)
    @@ (<<"1", "/", "u", "s", "e", "r">> :> Garbage)

\* no regular file is a directory of another
ValidTree(paths) == \A x \in paths, y \in paths : ~Under(x, y)

InitTrees ==
    {[q \in S |-> StrayContent[q]] :
        S \in {T \in SUBSET DOMAIN StrayContent :
                  Cardinality(T) <= MaxStray /\ ValidTree(T)}}

NoAccounts == [k \in {} |-> NoData]
NoFiles == [k \in {} |-> Garbage]
NilList == [nil |-> TRUE, list |-> <<>>]

---------------------------------------------------------------------------
(* Dump *)

dumpVars == <<data, canDelete, di, written, dumpErr>>
loadVars == <<allFiles, li, accounts, readLog, loadErr, loadOut>>

\* the file a resource is written to (writeUser, writeGroup, writePolicy,
\* writeRole)
WritePath(a, r) == Join(renderPath(a, r))

\* Dump up to its first loop: destDir is removed when canDelete is set
DumpBegin ==
    /\ pc = "idle"
    /\ \E d \in AccountDatas, cd \in BOOLEAN :
        /\ data' = d
        /\ canDelete' = cd
        /\ fs' = IF cd THEN RemoveAll(fs, String(d.Account)) ELSE fs
    /\ di' = 1
    /\ written' = <<>>
    /\ pc' = "dump"
    /\ UNCHANGED <<fs0, dumpErr, loadVars, codecVars>>

\* os.RemoveAll fails: Dump returns its error before any write
DumpRemoveFail ==
    /\ pc = "idle"
    /\ \E d \in AccountDatas :
        /\ data' = d
        /\ canDelete' = TRUE
    /\ dumpErr' = "remove failed"
    /\ pc' = "dumpFailed"
    /\ UNCHANGED <<fs0, fs, di, written, loadVars, codecVars>>

\* one iteration of the loops of Dump: the resource is written
DumpWrite ==
    /\ pc = "dump"
    /\ di <= Len(DumpOrder(data))
    /\ LET r == DumpOrder(data)[di]
           path == WritePath(data.Account, r)
       IN  /\ ~Blocked(fs, path)
           /\ fs' = [q \in DOMAIN fs \cup {path} |->
                        IF q = path THEN Marshal(r) ELSE fs[q]]
           /\ written' = Append(written, r)
    /\ di' = di + 1
    /\ UNCHANGED <<fs0, pc, data, canDelete, dumpErr, loadVars, codecVars>>

\* one iteration of the loops of Dump: the write fails and Dump returns
DumpWriteFail ==
    /\ pc = "dump"
    /\ di <= Len(DumpOrder(data))
    /\ dumpErr' = "write failed"
    /\ pc' = "dumpFailed"
    /\ UNCHANGED <<fs0, fs, data, canDelete, di, written, loadVars, codecVars>>

\* the loops are over: Dump returns nil
DumpEnd ==
    /\ pc = "dump"
    /\ di > Len(DumpOrder(data))
    /\ dumpErr' = Nil
    /\ pc' = "dumped"
    /\ UNCHANGED <<fs0, fs, data, canDelete, di, written, loadVars, codecVars>>

---------------------------------------------------------------------------
(* Load *)

\* accounts after "if _, ok := accounts[accountid]; !ok { ... }", the parsed
\* account given
WithAccount(accts, key, acct) ==
    IF key \notin DOMAIN accts
    THEN [k \in DOMAIN accts \cup {key} |->
            IF k = key
            THEN NewAccountData([Id |-> acct.Id, Alias |-> acct.Alias])
            ELSE accts[k]]
    ELSE accts

\* a variant that returns the accounts loaded so far beside the error
FailedLoadResultPartial(accts) ==
    [nil |-> FALSE,
     list |-> [i \in 1..Cardinality(DOMAIN accts) |->
                 accts[getFilesRecursively(DOMAIN accts)[i]]]]

\* the account list Load returns with an error
FailedLoadResult(accts) == NilList

LoadBegin ==
    /\ pc \in {"idle", "dumped"}
    /\ allFiles' = getFilesRecursively(DOMAIN fs)
    /\ li' = 1
    /\ accounts' = NoAccounts
    /\ readLog' = <<>>
    /\ pc' = "load"
    /\ UNCHANGED <<fs0, fs, dumpVars, loadErr, loadOut, codecVars>>

\* getFilesRecursively fails: Load returns nil and the error
LoadWalkFail ==
    /\ pc \in {"idle", "dumped"}
    /\ loadErr' = "walk failed"
    /\ loadOut' = NilList
    /\ pc' = "loadFailed"
    /\ UNCHANGED <<fs0, fs, dumpVars, allFiles, li, accounts, readLog,
                   codecVars>>

\* a variant that ends the Load on a path the pattern does not match
LoadSkipFatal ==
    /\ pc = "load"
    /\ li <= Len(allFiles)
    /\ ~namedMatch(allFiles[li]).matched
    /\ loadErr' = "unmatched path"
    /\ loadOut' = NilList
    /\ pc' = "loadFailed"
    /\ UNCHANGED <<fs0, fs, dumpVars, allFiles, li, accounts, readLog,
                   codecVars>>

\* the else branch: the path does not match and is skipped
LoadSkip ==
    /\ pc = "load"
    /\ li <= Len(allFiles)
    /\ ~namedMatch(allFiles[li]).matched
    /\ li' = li + 1
    /\ UNCHANGED <<fs0, fs, pc, dumpVars, allFiles, accounts, readLog,
                   loadErr, loadOut, codecVars>>

\* NewAccountData panics on the account of the path
LoadPanic ==
    /\ pc = "load"
    /\ li <= Len(allFiles)
    /\ LET m == namedMatch(allFiles[li])
       IN  /\ m.matched
           /\ m.account \notin DOMAIN accounts
           /\ NewAccountFromString(m.account).panic
    /\ pc' = "panic"
    /\ UNCHANGED <<fs0, fs, dumpVars, loadVars, codecVars>>

\* the file is read and its resource added to its account
LoadFile ==
    /\ pc = "load"
    /\ li <= Len(allFiles)
    /\ LET fp == allFiles[li]
           m == namedMatch(fp)
           acct == NewAccountFromString(m.account)
       IN  /\ m.matched
           /\ ~(m.account \notin DOMAIN accounts /\ acct.panic)
           /\ fs[fp].valid
           /\ accounts' =
                [WithAccount(accounts, m.account, acct) EXCEPT ![m.account] =
                    AddResource(@, Unmarshal(KindOf(m.entity), fs[fp],
                                             m.name, m.path))]
           /\ readLog' = Append(readLog, fp)
    /\ li' = li + 1
    /\ UNCHANGED <<fs0, fs, pc, dumpVars, allFiles, loadErr, loadOut,
                   codecVars>>

\* ioutil.ReadFile or yaml.Unmarshal fails: Load returns nil and the error
LoadFileFail ==
    /\ pc = "load"
    /\ li <= Len(allFiles)
    /\ LET fp == allFiles[li]
           m == namedMatch(fp)
           acct == NewAccountFromString(m.account)
       IN  /\ m.matched
           /\ ~(m.account \notin DOMAIN accounts /\ acct.panic)
           /\ accounts' = WithAccount(accounts, m.account, acct)
           /\ readLog' = Append(readLog, fp)
           /\ loadErr' = IF fs[fp].valid THEN "read failed" ELSE "yaml failed"
           /\ loadOut' = FailedLoadResult(WithAccount(accounts, m.account, acct))
    /\ pc' = "loadFailed"
    /\ UNCHANGED <<fs0, fs, dumpVars, allFiles, li, codecVars>>

\* the orders a map iteration can take
Orderings(S) ==
    {q \in [1..Cardinality(S) -> S] :
        \A i \in DOMAIN q, j \in DOMAIN q : i # j => q[i] # q[j]}

\* every file is done: the accounts are returned, in map iteration order
LoadEnd ==
    /\ pc = "load"
    /\ li > Len(allFiles)
    /\ \E q \in Orderings(DOMAIN accounts) :
          loadOut' = [nil |-> FALSE,
                      list |-> [i \in DOMAIN q |-> accounts[q[i]]]]
    /\ loadErr' = Nil
    /\ pc' = "loaded"
    /\ UNCHANGED <<fs0, fs, dumpVars, allFiles, li, accounts, readLog,
                   codecVars>>

---------------------------------------------------------------------------
(* Specifications *)

IoIdle ==
    /\ pc = "idle"
    /\ data = NoData
    /\ canDelete = FALSE
    /\ di = 1
    /\ written = <<>>
    /\ dumpErr = "not run"
    /\ allFiles = <<>>
    /\ li = 1
    /\ accounts = NoAccounts
    /\ readLog = <<>>
    /\ loadErr = "not run"
    /\ loadOut = NilList

Init ==
    /\ fs0 \in InitTrees
    /\ fs = fs0
    /\ IoIdle
    /\ cIn = CodecIdle
    /\ cOp = "idle"
    /\ cOut = NoMatch

Next ==
    \/ DumpBegin
    \/ DumpRemoveFail
    \/ DumpWrite
    \/ DumpWriteFail
    \/ DumpEnd
    \/ LoadBegin
    \/ LoadWalkFail
    \/ LoadSkip
    \/ LoadPanic
    \/ LoadFile
    \/ LoadFileFail
    \/ LoadEnd

Spec == Init /\ [][Next]_vars

CodecInit ==
    /\ fs0 = NoFiles
    /\ fs = NoFiles
    /\ IoIdle
    /\ cIn \in [a : CodecAccounts, r : CodecResources]
    /\ cOp = "input"
    /\ cOut = NoMatch

CodecNext == RenderAndMatch \/ FormatAndParse

CodecSpec == CodecInit /\ [][CodecNext]_vars

---------------------------------------------------------------------------
(* Properties *)

Range(q) == {q[i] : i \in DOMAIN q}

Resources(ad) ==
    Range(ad.Users) \cup Range(ad.Groups) \cup Range(ad.Roles)
        \cup Range(ad.Policies)

\* C1: for every account a and resource r whose Path starts and ends with
\* "/" and whose Name is non-empty without "/", matching the rendered path
\* yields account = a.String(), entity = r.Type(), path = r.PathString() and
\* name = r.NameString().
PathRoundTrip ==
    cOp = "path" =>
        cOut = [matched |-> TRUE,
                account |-> String(cIn.a),
                entity |-> Type(cIn.r),
                path |-> PathString(cIn.r),
                name |-> NameString(cIn.r)]

\* C2: a Load that follows a successful Dump into an empty directory returns
\* exactly one AccountData, with the account of the dumped data and the same
\* users, groups, roles and policies as sets.
LoadAfterDump ==
    (DOMAIN fs0 = {} /\ dumpErr = Nil /\ pc \in {"loaded", "panic"}) =>
        /\ pc = "loaded"
        /\ Len(loadOut.list) = 1
        /\ loadOut.list[1].Account = data.Account
        /\ Range(loadOut.list[1].Users) = Range(data.Users)
        /\ Range(loadOut.list[1].Groups) = Range(data.Groups)
        /\ Range(loadOut.list[1].Roles) = Range(data.Roles)
        /\ Range(loadOut.list[1].Policies) = Range(data.Policies)

\* C3: a malformed account string is reported as an error; Load never
\* panics on a tree with such an account segment.
LoadNeverPanics == pc # "panic"

\* C4: when reading or deserializing a matching file fails, Load returns the
\* error with a nil account list, however many files were loaded before, and
\* reads no file after the failing one.
LoadFailFast ==
    loadErr \in {"read failed", "yaml failed"} =>
        /\ pc = "loadFailed"
        /\ loadOut = NilList
        /\ readLog # <<>>
        /\ readLog[Len(readLog)] = allFiles[li]
        /\ \A k \in 1..Len(readLog) :
              \E j \in 1..li : allFiles[j] = readLog[k]

LoadFailFastWitness ==
    /\ pc = "loadFailed"
    /\ loadErr \in {"read failed", "yaml failed"}
    /\ Len(readLog) >= 2
    /\ li < Len(allFiles)

\* C5: Dump writes all users, then all policies, then all groups, then all
\* roles; the first failed write ends it with that error, every earlier
\* resource written and no later one.
DumpInOrder ==
    pc \in {"dump", "dumped", "dumpFailed"} =>
        LET order == data.Users \o data.Policies \o data.Groups \o data.Roles
        IN  /\ di <= Len(order) + 1
            /\ written = SubSeq(order, 1, di - 1)
            /\ \A k \in 1..Len(written) :
                  WritePath(data.Account, written[k]) \in DOMAIN fs
            /\ pc = "dumped" => (dumpErr = Nil /\ written = order)
            /\ dumpErr = "write failed" =>
                  (pc = "dumpFailed" /\ di <= Len(order))

DumpInOrderWitness ==
    /\ pc = "dumpFailed"
    /\ dumpErr = "write failed"
    /\ data.Policies # <<>>
    /\ data.Groups # <<>>
    /\ Len(written) = 1

\* C6: with canDelete, the files under the account's directory are exactly
\* the files of the resources written so far, and after a successful Dump
\* exactly the files of the resources of the account data, whatever the
\* directory held before.
DestructiveDumpMirrors ==
    (canDelete /\ pc \in {"dump", "dumped"}) =>
        LET under == {q \in DOMAIN fs : Under(q, String(data.Account))}
        IN  /\ under = {WritePath(data.Account, r) : r \in Range(written)}
            /\ pc = "dumped" =>
                  under = {WritePath(data.Account, r) : r \in Resources(data)}

DestructiveDumpWitness ==
    /\ pc = "dumped"
    /\ canDelete
    /\ written # <<>>
    /\ \E q \in DOMAIN fs0 :
          /\ Under(q, String(data.Account))
          /\ q \notin DOMAIN fs

\* C7: every resource Load returns has a Path that starts and ends with "/".
LoadedPathsSlashed ==
    pc = "loaded" =>
        \A i \in 1..Len(loadOut.list) :
            \A r \in Resources(loadOut.list[i]) :
                /\ r.Path # <<>>
                /\ r.Path[1] = "/"
                /\ r.Path[Len(r.Path)] = "/"

\* C8: NewAccountFromString(a.String()) has the Id and the Alias of a, for
\* every account with a non-empty digits-only Id and an Alias of word
\* characters and hyphens, or none.
AccountRoundTrip ==
    cOp = "account" =>
        cOut = [panic |-> FALSE, Id |-> cIn.a.Id, Alias |-> cIn.a.Alias]

AccountRoundTripWitness ==
    /\ cOp = "account"
    /\ cIn.a.Alias = <<"t", "-", "1">>
    /\ cIn.a.Id = <<"1", "2">>
    /\ ~cOut.panic

Matches(f) == namedMatch(f).matched

\* C9: a file whose path does not match the pattern is skipped: the step of
\* Load over it changes neither the accounts nor the files read, sets no
\* error and goes on with the next file; the files read, and the resources
\* loaded, are those of the matching paths alone.
SkipUnmatched ==
    /\ [](pc \in {"load", "loaded"} =>
            /\ readLog = SelectSeq(SubSeq(allFiles, 1, li - 1), Matches)
            /\ \A k \in DOMAIN accounts :
                  \E i \in 1..Len(readLog) :
                      namedMatch(readLog[i]).account = k
            /\ pc = "loaded" =>
                  (loadErr = Nil /\ ~loadOut.nil
                     /\ Range(loadOut.list) = Range(accounts)))
    /\ [][(pc = "load" /\ li <= Len(allFiles) /\ ~Matches(allFiles[li])) =>
            /\ pc' = "load"
            /\ li' = li + 1
            /\ accounts' = accounts
            /\ readLog' = readLog
            /\ loadErr' = loadErr
            /\ loadOut' = loadOut]_vars

SkipUnmatchedWitness ==
    /\ pc = "loaded"
    /\ readLog # <<>>
    /\ \E i \in 1..Len(allFiles) : ~Matches(allFiles[i])
    /\ \A i \in 1..Len(loadOut.list) :
          Cardinality(Resources(loadOut.list[i])) >= 1

\* C10: no two AccountData returned by Load have the same Account.Id.
OneAccountDataPerId ==
    pc = "loaded" =>
        \A i \in 1..Len(loadOut.list), j \in 1..Len(loadOut.list) :
            i # j => loadOut.list[i].Account.Id # loadOut.list[j].Account.Id

====
